---- MODULE Spec2Model ----
(***************************************************************************)
(* Model of `mc admin heal` (cmd/admin-heal.go): the command's syntax      *)
(* check, scope resolution, the choice between background-status query,    *)
(* force-stop and start-then-follow, and the fatal/exit paths.             *)
(*                                                                         *)
(* Strings the code inspects character by character (the scan argument,    *)
(* the target locator) are sequences of one-character strings, so that     *)
(* strings.ToLower, filepath.ToSlash and splitStr are computed.            *)
(***************************************************************************)
EXTENDS Integers, Sequences, FiniteSets, TLC

\* ---------------------------------------------------------------- bounds
\* longest target locator tried
MaxLocLen == 5
\* non-final poll responses the server may give before it must end
MaxPolls == 1

\* ------------------------------------------------------------- constants
scanNormalMode == <<"n", "o", "r", "m", "a", "l">>
scanDeepMode == <<"d", "e", "e", "p">>

\* OS path separator of the build (filepath.Separator), '/' on Unix
Separator == "/"

\* ------------------------------------------------------- string helpers
UpperChars == <<"A", "D", "E", "L", "M", "N", "O", "P", "R">>
LowerChars == <<"a", "d", "e", "l", "m", "n", "o", "p", "r">>

ToLowerChar(ch) ==
  IF \E i \in 1..Len(UpperChars) : UpperChars[i] = ch
  THEN LowerChars[CHOOSE i \in 1..Len(UpperChars) : UpperChars[i] = ch]
  ELSE ch

\* strings.ToLower
ToLower(str) == [i \in 1..Len(str) |-> ToLowerChar(str[i])]

\* filepath.ToSlash: every Separator becomes '/'
ToSlash(path) ==
  [i \in 1..Len(path) |-> IF path[i] = Separator THEN "/" ELSE path[i]]

RECURSIVE SplitN(_, _, _)
\* strings.SplitN for a one-character separator and n > 0
SplitN(str, sep, n) ==
  IF n = 1 \/ ~(\E i \in 1..Len(str) : str[i] = sep)
  THEN <<str>>
  ELSE LET i == CHOOSE k \in 1..Len(str) :
                  str[k] = sep /\ \A j \in 1..(k - 1) : str[j] # sep
       IN <<SubSeq(str, 1, i - 1)>>
            \o SplitN(SubSeq(str, i + 1, Len(str)), sep, n - 1)

\* splitStr: SplitN, padded with empty strings up to n parts
splitStr(path, sep, n) ==
  LET splits == SplitN(path, sep, n)
  IN splits \o [i \in 1..(n - Len(splits)) |-> <<>>]

\* ------------------------------------------------------------ the inputs
LocChars == {"a", "/"}

RECURSIVE StringsUpTo(_)
StringsUpTo(n) ==
  IF n = 0 THEN {<<>>}
  ELSE LET shorter == StringsUpTo(n - 1)
       IN shorter \cup {Append(str, ch) : str \in shorter, ch \in LocChars}

\* target locators alias[/bucket[/prefix]]: they begin with the alias
Locators == {str \in StringsUpTo(MaxLocLen) : str # <<>> /\ str[1] # "/"}

\* zero, one or two positional arguments
ArgLists ==
  {<<>>} \cup {<<loc>> : loc \in Locators}
    \cup {<<<<"a">>, loc>> : loc \in {<<"a">>, <<"a", "/", "a">>}}

ScanArgs ==
  { scanNormalMode, scanDeepMode,
    <<"D", "e", "e", "p">>, <<"D", "E", "E", "P">>,
    <<"d", "e", "e", "p", "e", "r">> }

\* the cli.Context of one invocation: positional arguments and flags
Contexts ==
  [ args : ArgLists, scan : ScanArgs, recursive : BOOLEAN, dryRun : BOOLEAN,
    forceStart : BOOLEAN, forceStop : BOOLEAN, remove : BOOLEAN ]

\* --------------------------------------------------- the server's answers
HealNormalScan == "HealNormalScan"
HealDeepScan == "HealDeepScan"

\* madmin.HealResultItem, reduced to what the aggregate reads
OkItem == [ok |-> TRUE, class |-> "green", drives |-> 3]
BadItem == [ok |-> FALSE, class |-> "purple", drives |-> 0]

\* item-result batches a response may carry
Batches == {<<>>, <<OkItem>>, <<BadItem, OkItem>>}
\* batches that may come with the answer to the start call
StartBatches == {<<>>, <<BadItem, OkItem>>}

\* continuation tokens the server hands out
Tokens == {"t1", "t2"}

\* what the outside world answers to one step of the command: whether
\* newAdminClient fails, whether the control call fails, and the payload
Answer(clientErr, err, token, items, finished, detail) ==
  [ clientErr |-> clientErr, err |-> err, token |-> token, items |-> items,
    finished |-> finished, failureDetail |-> detail ]

ClientAnswers == {Answer(ce, FALSE, "", <<>>, FALSE, "") : ce \in BOOLEAN}
PlainAnswers == {Answer(FALSE, err, "", <<>>, FALSE, "") : err \in BOOLEAN}
StartAnswers ==
  {Answer(FALSE, TRUE, "", <<>>, FALSE, "")}
    \cup {Answer(FALSE, FALSE, tok, items, FALSE, "") :
            tok \in Tokens, items \in StartBatches}
PollAnswers ==
  {Answer(FALSE, TRUE, "", <<>>, FALSE, d) : d \in {"", "disk offline"}}
    \cup {Answer(FALSE, FALSE, "", items, fin, "") :
            items \in Batches, fin \in BOOLEAN}

\* ------------------------------------------------------------- the state
NoOpts == [ScanMode |-> "", Remove |-> FALSE, Recursive |-> FALSE, DryRun |-> FALSE]
NoUI ==
  [ Bucket |-> <<>>, Prefix |-> <<>>, Client |-> FALSE, ClientToken |-> "",
    ForceStart |-> FALSE, HealOpts |-> NoOpts ]
NoRes == [Summary |-> "", FailureDetail |-> ""]
NoFatal == [msg |-> "", locator |-> <<>>, traceStr |-> <<>>]
EmptyAgg ==
  [ itemsScanned |-> 0, itemsByHealthClass |-> <<>>,
    objectsByOnlineDriveCount |-> <<>> ]

\* one control call as the admin client sees it
HealCall(bucket, prefix, opts, clientToken, forceStart, forceStop) ==
  [ op |-> "Heal", bucket |-> bucket, prefix |-> prefix, opts |-> opts,
    clientToken |-> clientToken, forceStart |-> forceStart,
    forceStop |-> forceStop ]
BackgroundHealStatusCall ==
  [ op |-> "BackgroundHealStatus", bucket |-> <<>>, prefix |-> <<>>,
    opts |-> NoOpts, clientToken |-> "", forceStart |-> FALSE,
    forceStop |-> FALSE ]

\* the process at the entry of mainAdminHeal
\*   pc          where mainAdminHeal stands
\*   calls       control calls issued so far, in order
\*   msgs        messages handed to printMsg
\*   fatal       the report of fatalIf, NoFatal if none
\*   res, e      what DisplayAndFollowHealStatus returned
\*   polls       poll calls answered so far
\*   srvToken, srvStartItems, srvPollItems, errAt: observers of the
\*   server's answers (token and items handed out, number of calls when a
\*   call first failed); the command never reads them
InitState ==
  [ pc |-> "checkSyntax", exitCode |-> 0, helpShown |-> FALSE,
    client |-> FALSE, aliasedURL |-> <<>>, bucket |-> <<>>, prefix |-> <<>>,
    opts |-> NoOpts, ui |-> NoUI, agg |-> EmptyAgg, calls |-> <<>>,
    msgs |-> <<>>, fatal |-> NoFatal, res |-> NoRes, e |-> FALSE,
    polls |-> 0, srvToken |-> "", srvStartItems |-> 0, srvPollItems |-> 0,
    errAt |-> 0 ]

VARIABLES ctx, st, twin

vars == <<ctx, st, twin>>

\* ------------------------------------------------- exits and reporting
\* cli.ShowCommandHelpAndExit: print the command's help, leave with code
ShowCommandHelpAndExit(s, code) ==
  [s EXCEPT !.pc = "exit", !.exitCode = code, !.helpShown = TRUE]

\* fatalIf: nothing on a nil error; otherwise report and leave with 1
fatalIf(s, err, locator, traceStr, msg) ==
  IF ~err THEN s
  ELSE [s EXCEPT !.pc = "exit", !.exitCode = 1,
                 !.fatal = [msg |-> msg, locator |-> locator,
                            traceStr |-> traceStr]]

\* printMsg
printMsg(s, msg) == [s EXCEPT !.msgs = Append(@, msg)]

\* return nil from mainAdminHeal: the process leaves with 0
ReturnNil(s) == IF s.pc = "exit" THEN s ELSE [s EXCEPT !.pc = "exit", !.exitCode = 0]

\* json.MarshalIndent of a madmin.HealTaskStatus
MarshalIndent(res) ==
  <<"Summary", res.Summary, "FailureDetail", res.FailureDetail>>

\* ------------------------------------------------------ checkAdminHealSyntax
\* checkAdminHealSyntax with the argument count tested as "none given"
checkAdminHealSyntax_TooFew(c) ==
  /\ ~(Len(c.args) < 1)
  /\ LET scanArg == ToLower(c.scan)
     IN ~(scanArg # scanNormalMode /\ scanArg # scanDeepMode)

\* TRUE iff checkAdminHealSyntax returns without showing the help
checkAdminHealSyntax(c) ==
  /\ ~(Len(c.args) # 1)
  /\ LET scanArg == ToLower(c.scan)
     IN ~(scanArg # scanNormalMode /\ scanArg # scanDeepMode)

transformScanArg(scanArg) ==
  IF scanArg = <<"d", "e", "e", "p">> THEN HealDeepScan ELSE HealNormalScan

\* ------------------------------------------------------------ mainAdminHeal
CheckSyntaxStep(c, s) ==
  IF checkAdminHealSyntax(c)
  THEN [s EXCEPT !.pc = "newClient"]
  ELSE ShowCommandHelpAndExit(s, 1)

\* the shortcut taken only when no force-stop was asked for
IsBackgroundQuery_UnlessStop(c, bucket) ==
  bucket = <<>> /\ ~c.recursive /\ ~c.forceStop

\* the condition of the background-status shortcut
IsBackgroundQuery(c, bucket) == bucket = <<>> /\ ~c.recursive

\* opts with Remove switched off by dry-run
HealOpts_DryRunKeeps(c) ==
  [ ScanMode |-> transformScanArg(c.scan), Remove |-> c.remove /\ ~c.dryRun,
    Recursive |-> c.recursive, DryRun |-> c.dryRun ]

\* opts := madmin.HealOpts{...}
HealOpts(c) ==
  [ ScanMode |-> transformScanArg(c.scan), Remove |-> c.remove,
    Recursive |-> c.recursive, DryRun |-> c.dryRun ]

\* newAdminClient, then the scope and the choice of the branch
NewClientStep(c, s, r) ==
  LET aliasedURL == c.args[1] IN
  IF r.clientErr
  THEN fatalIf(s, TRUE, aliasedURL, <<>>, "Cannot initialize admin client.")
  ELSE LET url == ToSlash(aliasedURL)
           splits == splitStr(url, "/", 3)
           bucket == splits[2]
           prefix == splits[3]
       IN [s EXCEPT !.client = TRUE, !.aliasedURL = url,
                    !.bucket = bucket, !.prefix = prefix,
                    !.opts = IF IsBackgroundQuery(c, bucket) THEN NoOpts
                             ELSE HealOpts(c),
                    !.pc = IF IsBackgroundQuery(c, bucket) THEN "bgStatus"
                           ELSE IF c.forceStop THEN "stop" ELSE "start"]

\* the observer of a failed control call
NoteErr(s, err) ==
  IF err /\ s.errAt = 0 THEN [s EXCEPT !.errAt = Len(s.calls)] ELSE s

BgStatusStep(c, s, r) ==
  LET called == NoteErr([s EXCEPT !.calls = Append(@, BackgroundHealStatusCall)],
                        r.err)
      checked == fatalIf(called, r.err, <<>>, <<>>,
                         "Failed to get the status of the background heal.")
  IN IF checked.pc = "exit" THEN checked
     ELSE ReturnNil(printMsg(checked,
            [type |-> "backgroundHealStatusMessage", Status |-> "success",
             Alias |-> <<>>]))

\* the stop call with the two force flags in the wrong order
StopCall_Swapped(c, s) ==
  HealCall(s.bucket, s.prefix, s.opts, "", c.forceStop, c.forceStart)

\* the call of the force-stop branch
StopCall(c, s) ==
  HealCall(s.bucket, s.prefix, s.opts, "", c.forceStart, c.forceStop)

StopStep(c, s, r) ==
  LET called == NoteErr([s EXCEPT !.calls = Append(@, StopCall(c, s))], r.err)
      checked == fatalIf(called, r.err, <<>>, <<>>,
                         "Failed to stop heal sequence.")
  IN IF checked.pc = "exit" THEN checked
     ELSE ReturnNil(printMsg(checked,
            [type |-> "stopHealMessage", Status |-> "success",
             Alias |-> s.aliasedURL]))

\* the start call with forceStart not forwarded
StartCall_NoForce(c, s) ==
  HealCall(s.bucket, s.prefix, s.opts, "", FALSE, FALSE)

\* the call that starts the sequence
StartCall(c, s) ==
  HealCall(s.bucket, s.prefix, s.opts, "", c.forceStart, FALSE)

\* uiData built without the token of the start response
NewUIData_NoToken(c, s, healStart) ==
  [ Bucket |-> s.bucket, Prefix |-> s.prefix, Client |-> s.client,
    ClientToken |-> "", ForceStart |-> c.forceStart, HealOpts |-> s.opts ]

\* ui := uiData{...}
NewUIData(c, s, healStart) ==
  [ Bucket |-> s.bucket, Prefix |-> s.prefix, Client |-> s.client,
    ClientToken |-> healStart.ClientToken, ForceStart |-> c.forceStart,
    HealOpts |-> s.opts ]

\* the start step with herr left unchecked
StartStep_Unchecked(c, s, r) ==
  LET called == NoteErr([s EXCEPT !.calls = Append(@, StartCall(c, s))], r.err)
      healStart == [ClientToken |-> r.token]
  IN [called EXCEPT !.ui = NewUIData(c, called, healStart),
                    !.srvToken = r.token,
                    !.srvStartItems = Len(r.items),
                    !.pc = "follow"]

\* healStart, _, herr := client.Heal(...): the second result is dropped
StartStep(c, s, r) ==
  LET called == NoteErr([s EXCEPT !.calls = Append(@, StartCall(c, s))], r.err)
      checked == fatalIf(called, r.err, <<>>, <<>>,
                         "Failed to start heal sequence.")
      healStart == [ClientToken |-> r.token]
  IN IF checked.pc = "exit" THEN checked
     ELSE [checked EXCEPT !.ui = NewUIData(c, checked, healStart),
                          !.srvToken = r.token,
                          !.srvStartItems = Len(r.items),
                          !.pc = "follow"]

\* ---------------------------------------------------- Progress Aggregator
KnownClasses == {"green", "yellow", "red", "grey"}

Classify(class) == IF class \in KnownClasses THEN class ELSE "unknown"

\* add one to the running total under key, starting the bucket at 0
Increment(f, key) ==
  [k \in DOMAIN f \cup {key} |->
     (IF k \in DOMAIN f THEN f[k] ELSE 0) + (IF k = key THEN 1 ELSE 0)]

foldItem(agg, item) ==
  [ itemsScanned |-> agg.itemsScanned + 1,
    itemsByHealthClass |->
      Increment(agg.itemsByHealthClass, Classify(item.class)),
    objectsByOnlineDriveCount |->
      IF item.ok THEN Increment(agg.objectsByOnlineDriveCount, item.drives)
      ELSE agg.objectsByOnlineDriveCount ]

RECURSIVE fold(_, _)
fold(agg, batch) ==
  IF batch = <<>> THEN agg
  ELSE fold(foldItem(agg, Head(batch)), Tail(batch))

\* ------------------------------------------ the follow loop and its report
\* the report with the serialized result attached on the wrong branch
FollowReport_Inverted(s, res, e) ==
  LET returned == [s EXCEPT !.res = res, !.e = e]
      msg == "Unable to display heal status."
  IN IF e
     THEN IF res.FailureDetail = ""
          THEN fatalIf(returned, TRUE, s.aliasedURL, MarshalIndent(res), msg)
          ELSE fatalIf(returned, TRUE, s.aliasedURL, <<>>, msg)
     ELSE ReturnNil(returned)

\* res, e := ui.DisplayAndFollowHealStatus(aliasedURL); if e != nil {...}
FollowReport(s, res, e) ==
  LET returned == [s EXCEPT !.res = res, !.e = e]
      msg == "Unable to display heal status."
  IN IF e
     THEN IF res.FailureDetail # ""
          THEN fatalIf(returned, TRUE, s.aliasedURL, MarshalIndent(res), msg)
          ELSE fatalIf(returned, TRUE, s.aliasedURL, <<>>, msg)
     ELSE ReturnNil(returned)

\* one round of the poll loop of DisplayAndFollowHealStatus
FollowStep(c, s, r) ==
  LET call == HealCall(s.ui.Bucket, s.ui.Prefix, s.ui.HealOpts,
                       s.ui.ClientToken, FALSE, FALSE)
      called == NoteErr([s EXCEPT !.calls = Append(@, call),
                                  !.polls = @ + 1,
                                  !.srvPollItems = @ + Len(r.items)],
                        r.err)
      folded == [called EXCEPT !.agg = fold(@, r.items)]
  IN IF r.err
     THEN FollowReport(called,
            [Summary |-> "stopped", FailureDetail |-> r.failureDetail], TRUE)
     ELSE IF r.finished
          THEN FollowReport(folded,
                 [Summary |-> "finished", FailureDetail |-> ""], FALSE)
          ELSE folded

\* ------------------------------------------------------- the environment
NoAnswer == Answer(FALSE, FALSE, "", <<>>, FALSE, "")

\* the answers the outside world can give to the step s is about to take
AnswersFor(s) ==
  CASE s.pc = "checkSyntax" -> {NoAnswer}
    [] s.pc = "newClient" -> ClientAnswers
    [] s.pc \in {"bgStatus", "stop"} -> PlainAnswers
    [] s.pc = "start" -> StartAnswers
    [] s.pc = "follow" ->
         {r \in PollAnswers : r.err \/ r.finished \/ s.polls < MaxPolls}
    [] OTHER -> {}

\* the step mainAdminHeal takes from s when the world answers r
Step(c, s, r) ==
  CASE s.pc = "checkSyntax" -> CheckSyntaxStep(c, s)
    [] s.pc = "newClient" -> NewClientStep(c, s, r)
    [] s.pc = "bgStatus" -> BgStatusStep(c, s, r)
    [] s.pc = "stop" -> StopStep(c, s, r)
    [] s.pc = "start" -> StartStep(c, s, r)
    [] s.pc = "follow" -> FollowStep(c, s, r)
    [] OTHER -> s

\* --------------------------------------------------------- one invocation
Init ==
  /\ ctx \in Contexts
  /\ st = InitState
  /\ twin = InitState

CheckSyntax ==
  /\ st.pc = "checkSyntax"
  /\ st' = CheckSyntaxStep(ctx, st)
  /\ UNCHANGED <<ctx, twin>>

NewClient ==
  /\ st.pc = "newClient"
  /\ \E r \in AnswersFor(st) : st' = NewClientStep(ctx, st, r)
  /\ UNCHANGED <<ctx, twin>>

BgStatus ==
  /\ st.pc = "bgStatus"
  /\ \E r \in AnswersFor(st) : st' = BgStatusStep(ctx, st, r)
  /\ UNCHANGED <<ctx, twin>>

Stop ==
  /\ st.pc = "stop"
  /\ \E r \in AnswersFor(st) : st' = StopStep(ctx, st, r)
  /\ UNCHANGED <<ctx, twin>>

Start ==
  /\ st.pc = "start"
  /\ \E r \in AnswersFor(st) : st' = StartStep(ctx, st, r)
  /\ UNCHANGED <<ctx, twin>>

Follow ==
  /\ st.pc = "follow"
  /\ \E r \in AnswersFor(st) : st' = FollowStep(ctx, st, r)
  /\ UNCHANGED <<ctx, twin>>

Next == CheckSyntax \/ NewClient \/ BgStatus \/ Stop \/ Start \/ Follow

Spec == Init /\ [][Next]_vars

\* ------------------------------------- two invocations, dry-run flipped
\* the same invocation with the dry-run flag flipped
TwinCtx == [ctx EXCEPT !.dryRun = ~ctx.dryRun]

\* both invocations take their next step against the same answer
PairStep ==
  /\ st.pc # "exit"
  /\ \E r \in AnswersFor(st) :
       /\ st' = Step(ctx, st, r)
       /\ twin' = Step(TwinCtx, twin, r)
  /\ UNCHANGED ctx

NextPair == PairStep

SpecPair == Init /\ [][NextPair]_vars

\* ------------------------------------------------------------ properties
HealCallsOf(s) == {i \in 1..Len(s.calls) : s.calls[i].op = "Heal"}
BgCallsOf(s) == {i \in 1..Len(s.calls) : s.calls[i].op = "BackgroundHealStatus"}
PollCallsOf(s) == {i \in HealCallsOf(s) : i > 1}

\* the invocation passed the syntax check and obtained an admin client
Admitted == st.client

EmptyScope == st.bucket = <<>> /\ ~ctx.recursive

BadSyntax ==
  \/ Len(ctx.args) # 1
  \/ ToLower(ctx.scan) \notin {scanNormalMode, scanDeepMode}

\* C3: with a wrong number of positional arguments or an unrecognized
\* scan value the invocation leaves with code 1 and the help shown, with
\* no admin client constructed and no control call issued.
C3_SyntaxAbort ==
  BadSyntax =>
    /\ st.pc \in {"checkSyntax", "exit"}
    /\ ~st.client /\ st.calls = <<>> /\ st.fatal = NoFatal
    /\ (st.pc = "exit" => st.exitCode = 1 /\ st.helpShown)

C3_Witness ==
  /\ Len(ctx.args) = 1 /\ ctx.scan = <<"d", "e", "e", "p", "e", "r">>
  /\ st.pc = "exit" /\ st.exitCode = 1 /\ st.helpShown

C6_FailStops ==
  (st.errAt > 0) =>
    /\ st.pc = "exit" /\ st.exitCode = 1
    /\ st.fatal # NoFatal
    /\ Len(st.calls) = st.errAt
    /\ st.msgs = <<>>
    /\ (st.errAt = 1 => st.polls = 0)

C6_Witness ==
  /\ st.errAt = 1 /\ st.calls[1].op = "Heal" /\ ~st.calls[1].forceStop
  /\ st.pc = "exit" /\ st.exitCode = 1 /\ st.polls = 0

\* C7: when the follow loop ends with an error the fatal report carries
\* the serialized result iff its FailureDetail is non-empty; otherwise it
\* carries the target locator alone.
C7_FailureDetail ==
  (st.pc = "exit" /\ st.e) =>
    /\ st.fatal # NoFatal /\ st.exitCode = 1
    /\ st.fatal.locator = st.aliasedURL
    /\ (st.res.FailureDetail # "" <=> st.fatal.traceStr # <<>>)
    /\ (st.res.FailureDetail # "" => st.fatal.traceStr = MarshalIndent(st.res))

C7_Witness ==
  /\ st.pc = "exit" /\ st.e /\ st.res.FailureDetail = "disk offline"
  /\ st.fatal.traceStr[4] = "disk offline"

\* C8 as stated: every scope passed to Heal has an empty prefix whenever
\* its bucket is empty.
C8_ScopeInvariant ==
  \A i \in HealCallsOf(st) :
    st.calls[i].bucket = <<>> => st.calls[i].prefix = <<>>

\* the scan mode the syntax check accepted
AcceptedDeep == ToLower(ctx.scan) = scanDeepMode
AcceptedNormal == ToLower(ctx.scan) = scanNormalMode

\* C10 as stated: the options of every Heal call carry HealDeepScan when
\* the syntax check accepted the scan argument as deep, and
\* HealNormalScan when it accepted it as normal.
C10_ScanAgrees ==
  \A i \in HealCallsOf(st) :
    /\ AcceptedDeep => st.calls[i].opts.ScanMode = HealDeepScan
    /\ AcceptedNormal => st.calls[i].opts.ScanMode = HealNormalScan

\* a control call with the DryRun field of its options blanked
WithoutDryRun(call) == [call EXCEPT !.opts.DryRun = FALSE]

\* C9: two invocations that differ only in the dry-run flag, run against
\* the same answers, stand at the same place, have left with the same
\* code, and have issued the same control calls up to the DryRun field,
\* which each carries as given.
C9_DryRunNeutral ==
  /\ st.pc = twin.pc /\ st.exitCode = twin.exitCode
  /\ Len(st.calls) = Len(twin.calls)
  /\ \A i \in 1..Len(st.calls) :
       /\ i <= Len(twin.calls)
       /\ WithoutDryRun(st.calls[i]) = WithoutDryRun(twin.calls[i])
       /\ (st.calls[i].op = "Heal" =>
             /\ st.calls[i].opts.DryRun = ctx.dryRun
             /\ twin.calls[i].opts.DryRun = ~ctx.dryRun)

C9_Witness ==
  /\ st.pc = "exit" /\ twin.pc = "exit" /\ st.polls = 2 /\ twin.polls = 2
  /\ Len(st.calls) = 3 /\ Len(twin.calls) = 3
  /\ st.calls[1].opts.DryRun /\ ~twin.calls[1].opts.DryRun

====
